---- MODULE Spec2Model ----
(***************************************************************************)
(* Model of the residual/noise diffusion engine of src/model.py:           *)
(* gen_coefficients, Diffusion.__init__ (the schedule buffers), the        *)
(* posterior formulas, q_sample and the two samplers p_sample_loop and     *)
(* ddim_sample behind Diffusion.sample.                                    *)
(*                                                                         *)
(* Tensors are modelled by one element (every tensor operation of the      *)
(* engine is elementwise).  Numbers are exact rationals <<n, d>> in lowest *)
(* terms with d > 0; floating-point rounding of +, -, *, / is not          *)
(* modelled.  sqrt is exact on squares of rationals and otherwise rounded  *)
(* down to a multiple of 1/SqrtRes.                                        *)
(***************************************************************************)
EXTENDS Integers, Sequences, FiniteSets, TLC

(* ---------------------------- bounds ----------------------------------- *)
MaxT == 3

(* resolution of the rounded square root *)
SqrtRes == 100

(* ------------------------- rational numbers ---------------------------- *)
Abs(n) == IF n < 0 THEN -n ELSE n

RECURSIVE GCD(_, _)
GCD(a, b) == IF b = 0 THEN a ELSE GCD(b, a % b)

Norm(n, d) ==
    LET s == IF d < 0 THEN -1 ELSE 1
        g == GCD(Abs(n), Abs(d))
    IN  <<(s * n) \div g, (s * d) \div g>>

Zero == <<0, 1>>
One == <<1, 1>>
MinusOne == <<-1, 1>>
Half == <<1, 2>>
Two == <<2, 1>>

RInt(n) == <<n, 1>>
RAdd(a, b) ==
    LET g == IF a[2] = b[2] THEN a[2] ELSE GCD(a[2], b[2])
    IN  Norm(a[1] * (b[2] \div g) + b[1] * (a[2] \div g), a[2] * (b[2] \div g))
RNeg(a) == <<-a[1], a[2]>>
RSub(a, b) == RAdd(a, RNeg(b))
RMul(a, b) == Norm(a[1] * b[1], a[2] * b[2])
RDiv(a, b) == Norm(a[1] * b[2], a[2] * b[1])
RLt(a, b) == a[1] * b[2] < b[1] * a[2]
RLe(a, b) == a[1] * b[2] <= b[1] * a[2]
RMax(a, b) == IF RLt(a, b) THEN b ELSE a
RMin(a, b) == IF RLt(b, a) THEN b ELSE a

(* torch.clamp / Tensor.clip *)
Clamp(x, lo, hi) == RMin(RMax(x, lo), hi)

(* largest k with k * k <= m *)
ISqrt(m) == CHOOSE k \in 0..(m + 1) : k * k <= m /\ (k + 1) * (k + 1) > m

IsSquare(m) == ISqrt(m) * ISqrt(m) = m

(* torch.sqrt / Tensor.sqrt on a non-negative value *)
RSqrt(a) ==
    IF IsSquare(a[1]) /\ IsSquare(a[2])
    THEN <<ISqrt(a[1]), ISqrt(a[2])>>
    ELSE Norm(ISqrt((a[1] * SqrtRes * SqrtRes) \div a[2]), SqrtRes)

(* ---------------------------- helpers ---------------------------------- *)
None == <<>>

exists(x) == x # None

default(val, d) == IF exists(val) THEN val ELSE d

normalize_to_neg_one_to_one(x) == RSub(RMul(x, Two), One)

unnormalize_to_zero_to_one(x) == RMul(RAdd(x, One), Half)

RECURSIVE SumTo(_, _)
SumTo(a, t) == IF t < 0 THEN Zero ELSE RAdd(SumTo(a, t - 1), a[t])

(* Tensor.sum over a buffer indexed 0..n-1 *)
Total(a) == SumTo(a, Cardinality(DOMAIN a) - 1)

(* Tensor.cumsum(dim=0) *)
CumSum(a) == [t \in DOMAIN a |-> SumTo(a, t)]

(* F.pad(a[:-1], (1, 0), value=1.) *)
PadPrev(a) == [t \in DOMAIN a |-> IF t = 0 THEN One ELSE a[t - 1]]

(* ------------------------- gen_coefficients ---------------------------- *)
Schedules == {"increased", "decreased", "average", "other"}

(* GenRaw with scale = timesteps*(timesteps+1), the 0.5 dropped *)
GenRaw_NoHalf(timesteps, schedule) ==
    LET scale == RInt(timesteps * (timesteps + 1))
    IN  [i \in 0..(timesteps - 1) |->
            IF schedule = "increased" THEN RDiv(RInt(i + 1), scale)
            ELSE IF schedule = "decreased" THEN RDiv(RInt(timesteps - i), scale)
            ELSE RDiv(One, RInt(timesteps))]

(* the sequence before the multiplication by sum_scale *)
GenRaw(timesteps, schedule) ==
    LET scale == <<timesteps * (timesteps + 1), 2>>
    IN  [i \in 0..(timesteps - 1) |->
            IF schedule = "increased" THEN RDiv(RInt(i + 1), scale)
            ELSE IF schedule = "decreased" THEN RDiv(RInt(timesteps - i), scale)
            ELSE RDiv(One, RInt(timesteps))]

TolRoot == 100000

(* r < 1e-10, with 1e-10 = 1 / (TolRoot * TolRoot) *)
LtTol(r) ==
    IF r[1] <= 0 THEN TRUE
    ELSE IF r[1] > 20000 THEN FALSE
    ELSE \/ r[2] \div TolRoot > r[1] * TolRoot
         \/ (r[2] \div TolRoot = r[1] * TolRoot /\ r[2] % TolRoot > 0)

(* assert alphas.sum()-torch.tensor(1) < torch.tensor(1e-10) *)
GenAssert(raw) == LtTol(RSub(Total(raw), One))

gen_coefficients(timesteps, schedule, sum_scale) ==
    LET raw == GenRaw(timesteps, schedule)
    IN  [i \in DOMAIN raw |-> RMul(raw[i], sum_scale)]

(* ------------------------ Diffusion.__init__ --------------------------- *)
(* self.sum_scale = sum_scale if sum_scale else 0.01 / 1. *)
SumScaleOf(condition, sum_scale) ==
    IF sum_scale # None /\ sum_scale # Zero THEN sum_scale
    ELSE IF condition THEN <<1, 100>> ELSE One

(* EtaOf without the reset in the condition branch *)
EtaOf_Unforced(condition, ddim_sampling_eta) == ddim_sampling_eta

(* the value kept in self.ddim_sampling_eta *)
EtaOf(condition, ddim_sampling_eta) ==
    IF condition THEN Zero ELSE ddim_sampling_eta

(* Alphas built with the "increased" schedule *)
Alphas_Increased(timesteps) == gen_coefficients(timesteps, "increased", One)

Alphas(timesteps) == gen_coefficients(timesteps, "decreased", One)

AlphasCumsum(timesteps) ==
    LET c == CumSum(Alphas(timesteps))
    IN  [t \in DOMAIN c |-> Clamp(c[t], Zero, One)]

AlphasCumsumPrev(timesteps) == PadPrev(AlphasCumsum(timesteps))

Betas2(timesteps, ss) == gen_coefficients(timesteps, "increased", ss)

Betas2Cumsum(timesteps, ss) ==
    LET c == CumSum(Betas2(timesteps, ss))
    IN  [t \in DOMAIN c |-> Clamp(c[t], Zero, One)]

BetasCumsum(timesteps, ss) ==
    LET c == Betas2Cumsum(timesteps, ss)
    IN  [t \in DOMAIN c |-> RSqrt(c[t])]

Betas2CumsumPrev(timesteps, ss) == PadPrev(Betas2Cumsum(timesteps, ss))

(* posterior_variance, with posterior_variance[0] = 0 *)
PosteriorVariance(timesteps, ss) ==
    LET b2 == Betas2(timesteps, ss)
        b2c == Betas2Cumsum(timesteps, ss)
        b2cp == Betas2CumsumPrev(timesteps, ss)
    IN  [t \in DOMAIN b2 |->
            IF t = 0 THEN Zero ELSE RDiv(RMul(b2[t], b2cp[t]), b2c[t])]

(* torch.log(posterior_variance.clamp(min=1e-20)): an entry stands for    *)
(* log(1e-20) when floor is set and for log(arg) otherwise.  Every         *)
(* positive rational of the model is above 1e-20.                          *)
PosteriorLogVarianceClipped(timesteps, ss) ==
    LET v == PosteriorVariance(timesteps, ss)
    IN  [t \in DOMAIN v |->
            IF v[t][1] <= 0 THEN [floor |-> TRUE, arg |-> Zero]
            ELSE [floor |-> FALSE, arg |-> v[t]]]

(* PosteriorMeanCoef1 without self.posterior_mean_coef1[0] = 0 *)
PosteriorMeanCoef1_Unforced(timesteps, ss) ==
    LET b2c == Betas2Cumsum(timesteps, ss)
        b2cp == Betas2CumsumPrev(timesteps, ss)
    IN  [t \in DOMAIN b2c |-> RDiv(b2cp[t], b2c[t])]

(* posterior_mean_coef1, with self.posterior_mean_coef1[0] = 0 *)
PosteriorMeanCoef1(timesteps, ss) ==
    LET b2c == Betas2Cumsum(timesteps, ss)
        b2cp == Betas2CumsumPrev(timesteps, ss)
    IN  [t \in DOMAIN b2c |-> IF t = 0 THEN Zero ELSE RDiv(b2cp[t], b2c[t])]

(* PosteriorMeanCoef2 reading alphas_cumsum where it reads alphas_cumsum_prev *)
PosteriorMeanCoef2_NoPrev(timesteps, ss) ==
    LET a == Alphas(timesteps)
        ac == AlphasCumsum(timesteps)
        b2 == Betas2(timesteps, ss)
        b2c == Betas2Cumsum(timesteps, ss)
        b2cp == Betas2CumsumPrev(timesteps, ss)
    IN  [t \in DOMAIN b2c |->
            IF t = 0 THEN Zero
            ELSE RDiv(RSub(RMul(b2[t], ac[t]), RMul(b2cp[t], a[t])), b2c[t])]

(* posterior_mean_coef2, with self.posterior_mean_coef2[0] = 0 *)
PosteriorMeanCoef2(timesteps, ss) ==
    LET a == Alphas(timesteps)
        acp == AlphasCumsumPrev(timesteps)
        b2 == Betas2(timesteps, ss)
        b2c == Betas2Cumsum(timesteps, ss)
        b2cp == Betas2CumsumPrev(timesteps, ss)
    IN  [t \in DOMAIN b2c |->
            IF t = 0 THEN Zero
            ELSE RDiv(RSub(RMul(b2[t], acp[t]), RMul(b2cp[t], a[t])), b2c[t])]

(* posterior_mean_coef3, with self.posterior_mean_coef3[0] = 1 *)
PosteriorMeanCoef3(timesteps, ss) ==
    LET b2 == Betas2(timesteps, ss)
        b2c == Betas2Cumsum(timesteps, ss)
    IN  [t \in DOMAIN b2c |-> IF t = 0 THEN One ELSE RDiv(b2[t], b2c[t])]

Epsilon == <<1, 1000000>>

(* OneMinusAlphasCumsum without self.one_minus_alphas_cumsum[-1] = 1e-6 *)
OneMinusAlphasCumsum_NoEpsilon(timesteps) ==
    LET ac == AlphasCumsum(timesteps)
    IN  [t \in DOMAIN ac |-> RSub(One, ac[t])]

(* 1-alphas_cumsum, with self.one_minus_alphas_cumsum[-1] = 1e-6 *)
OneMinusAlphasCumsum(timesteps) ==
    LET ac == AlphasCumsum(timesteps)
    IN  [t \in DOMAIN ac |->
            IF t = timesteps - 1 THEN Epsilon ELSE RSub(One, ac[t])]

(* the asserts of __init__ and of the gen_coefficients calls it makes *)
Accepts(timesteps, sampling_timesteps) ==
    /\ GenAssert(GenRaw(timesteps, "decreased"))
    /\ GenAssert(GenRaw(timesteps, "increased"))
    /\ default(sampling_timesteps, <<timesteps>>)[1] <= timesteps

(* the object after __init__; args keeps the constructor's arguments *)
Diffusion(timesteps, sampling_timesteps, ddim_sampling_eta, condition, sum_scale, self_condition, loss_type) ==
    LET ss == SumScaleOf(condition, sum_scale)
        st == default(sampling_timesteps, <<timesteps>>)[1]
    IN  [ args |-> [ sampling_timesteps |-> sampling_timesteps,
                     ddim_sampling_eta |-> ddim_sampling_eta,
                     sum_scale |-> sum_scale ],
          condition |-> condition,
          self_condition |-> self_condition,
          loss_type |-> loss_type,
          sum_scale |-> ss,
          num_timesteps |-> timesteps,
          sampling_timesteps |-> st,
          is_ddim_sampling |-> st < timesteps,
          ddim_sampling_eta |-> EtaOf(condition, ddim_sampling_eta),
          alphas |-> Alphas(timesteps),
          alphas_cumsum |-> AlphasCumsum(timesteps),
          one_minus_alphas_cumsum |-> OneMinusAlphasCumsum(timesteps),
          betas2 |-> Betas2(timesteps, ss),
          betas |-> [t \in 0..(timesteps - 1) |-> RSqrt(Betas2(timesteps, ss)[t])],
          betas2_cumsum |-> Betas2Cumsum(timesteps, ss),
          betas_cumsum |-> BetasCumsum(timesteps, ss),
          posterior_mean_coef1 |-> PosteriorMeanCoef1(timesteps, ss),
          posterior_mean_coef2 |-> PosteriorMeanCoef2(timesteps, ss),
          posterior_mean_coef3 |-> PosteriorMeanCoef3(timesteps, ss),
          posterior_variance |-> PosteriorVariance(timesteps, ss),
          posterior_log_variance_clipped |->
              PosteriorLogVarianceClipped(timesteps, ss) ]

(* ------------------------ posterior methods ---------------------------- *)
predict_noise_from_res(self, x_t, t, x_in, pred_res) ==
    RDiv(RSub(RSub(x_t, x_in),
              RMul(RSub(self.alphas_cumsum[t], One), pred_res)),
         self.betas_cumsum[t])

predict_start_from_xinput_noise(self, x_t, t, x_in, noise) ==
    RDiv(RSub(RSub(x_t, RMul(self.alphas_cumsum[t], x_in)),
              RMul(self.betas_cumsum[t], noise)),
         self.one_minus_alphas_cumsum[t])

(* predict_start_from_res_noise reading alphas where it reads alphas_cumsum *)
predict_start_from_res_noise_Alphas(self, x_t, t, x_res, noise) ==
    RSub(RSub(x_t, RMul(self.alphas[t], x_res)),
         RMul(self.betas_cumsum[t], noise))

predict_start_from_res_noise(self, x_t, t, x_res, noise) ==
    RSub(RSub(x_t, RMul(self.alphas_cumsum[t], x_res)),
         RMul(self.betas_cumsum[t], noise))

q_posterior(self, pred_res, x0, x_t, t) ==
    [ posterior_mean |->
          RAdd(RAdd(RMul(self.posterior_mean_coef1[t], x_t),
                    RMul(self.posterior_mean_coef2[t], pred_res)),
               RMul(self.posterior_mean_coef3[t], x0)),
      posterior_variance |-> self.posterior_variance[t],
      posterior_log_variance_clipped |->
          self.posterior_log_variance_clipped[t] ]

q_sample(self, x0, x_res, t, noise) ==
    RAdd(RAdd(x0, RMul(self.alphas_cumsum[t], x_res)),
         RMul(self.betas_cumsum[t], noise))

(* model_output is the denoiser's pair; clip_denoised is left at True by  *)
(* both samplers                                                           *)
model_predictions(self, x, t, model_output) ==
    LET pred_res == Clamp(model_output[1], MinusOne, One)
        pred_noise == model_output[2]
        x0 == Clamp(predict_start_from_res_noise(self, x, t, pred_res, pred_noise),
                    MinusOne, One)
    IN  [pred_res |-> pred_res, pred_noise |-> pred_noise, pred_x_start |-> x0]

p_mean_variance(self, x, t, model_output) ==
    LET preds == model_predictions(self, x, t, model_output)
        q == q_posterior(self, preds.pred_res, preds.pred_x_start, x, t)
    IN  [ model_mean |-> q.posterior_mean,
          posterior_variance |-> q.posterior_variance,
          posterior_log_variance |-> q.posterior_log_variance_clipped,
          x_start |-> preds.pred_x_start ]

(* (0.5 * model_log_variance).exp(); exp(0.5*log(1e-20)) = 1e-10 is below *)
(* the resolution 1/SqrtRes                                                *)
ExpHalf(log_variance) ==
    IF log_variance.floor THEN Zero ELSE RSqrt(log_variance.arg)

(* PSampleNoise drawing at every t *)
PSampleNoise_AlwaysDraws(t, randn) == [noise |-> randn, drew |-> TRUE]

(* noise = torch.randn_like(x) if t > 0 else 0.; randn is the value the  *)
(* generator would return                                                  *)
PSampleNoise(t, randn) ==
    IF t > 0 THEN [noise |-> randn, drew |-> TRUE]
    ELSE [noise |-> Zero, drew |-> FALSE]

p_sample(self, x, t, model_output, randn) ==
    LET m == p_mean_variance(self, x, t, model_output)
        n == PSampleNoise(t, randn)
    IN  [ pred_img |-> RAdd(m.model_mean,
                            RMul(ExpHalf(m.posterior_log_variance), n.noise)),
          x_start |-> m.x_start,
          noise |-> n.noise,
          drew |-> n.drew ]

(* ------------------------- ddim_sample pieces -------------------------- *)
(* Tensor.int(): truncation toward zero *)
TruncInt(r) ==
    IF r[1] >= 0 THEN r[1] \div r[2] ELSE -((-r[1]) \div r[2])

(* torch.linspace(start, end, steps), 1-indexed *)
Linspace(start, end, steps) ==
    IF steps = 1 THEN <<RInt(start)>>
    ELSE [i \in 1..steps |->
             RAdd(RInt(start),
                  RMul(RInt(i - 1), RDiv(RInt(end - start), RInt(steps - 1))))]

Reversed(s) == [i \in 1..Len(s) |-> s[Len(s) + 1 - i]]

(* Times with steps=sampling_timesteps *)
Times_OneStepShort(total_timesteps, sampling_timesteps) ==
    LET l == Linspace(-1, total_timesteps - 1, sampling_timesteps)
    IN  Reversed([i \in 1..Len(l) |-> TruncInt(l[i])])

(* times = list(reversed(linspace(-1, T-1, S+1).int().tolist())) *)
Times(total_timesteps, sampling_timesteps) ==
    LET l == Linspace(-1, total_timesteps - 1, sampling_timesteps + 1)
    IN  Reversed([i \in 1..Len(l) |-> TruncInt(l[i])])

(* list(zip(times[:-1], times[1:])) *)
TimePairs(times) ==
    [i \in 1..(IF Len(times) = 0 THEN 0 ELSE Len(times) - 1) |->
        <<times[i], times[i + 1]>>]

(* DdimNoise drawing whatever eta is *)
DdimNoise_AlwaysDraws(eta, randn) == [noise |-> randn, drew |-> TRUE]

(* if eta == 0: noise = 0 else: noise = torch.randn_like(img) *)
DdimNoise(eta, randn) ==
    IF eta = Zero THEN [noise |-> Zero, drew |-> FALSE]
    ELSE [noise |-> randn, drew |-> TRUE]

(* DdimLocals with alpha taken as alpha_cumsum_next - alpha_cumsum *)
DdimLocals_AlphaSwapped(self, time, time_next) ==
    LET betas2_cumsum == self.betas2_cumsum[time]
        betas2_cumsum_next == self.betas2_cumsum[time_next]
        betas2 == RSub(betas2_cumsum, betas2_cumsum_next)
    IN  [ alpha |-> RSub(self.alphas_cumsum[time_next], self.alphas_cumsum[time]),
          betas2_cumsum |-> betas2_cumsum,
          betas2_cumsum_next |-> betas2_cumsum_next,
          betas2 |-> betas2,
          sigma2 |-> RMul(self.ddim_sampling_eta,
                          RDiv(RMul(betas2, betas2_cumsum_next), betas2_cumsum)) ]

(* the step-local quantities of a ddim_sample iteration with time_next >= 0 *)
DdimLocals(self, time, time_next) ==
    LET betas2_cumsum == self.betas2_cumsum[time]
        betas2_cumsum_next == self.betas2_cumsum[time_next]
        betas2 == RSub(betas2_cumsum, betas2_cumsum_next)
    IN  [ alpha |-> RSub(self.alphas_cumsum[time], self.alphas_cumsum[time_next]),
          betas2_cumsum |-> betas2_cumsum,
          betas2_cumsum_next |-> betas2_cumsum_next,
          betas2 |-> betas2,
          sigma2 |-> RMul(self.ddim_sampling_eta,
                          RDiv(RMul(betas2, betas2_cumsum_next), betas2_cumsum)) ]

(* the body of the ddim_sample loop after model_predictions *)
DdimUpdate(self, img, time, time_next, preds, randn) ==
    IF time_next < 0
    THEN [img |-> preds.pred_x_start, noise |-> Zero, drew |-> FALSE,
          step |-> None]
    ELSE
      LET eta == self.ddim_sampling_eta
          q == DdimLocals(self, time, time_next)
          alpha == q.alpha
          betas2_cumsum_next == q.betas2_cumsum_next
          betas_cumsum == self.betas_cumsum[time]
          sigma2 == q.sigma2
          n == DdimNoise(eta, randn)
      IN  [ step |-> q,
            img |->
              RAdd(RSub(RSub(img, RMul(alpha, preds.pred_res)),
                        RMul(RSub(betas_cumsum,
                                  RSqrt(RSub(betas2_cumsum_next, sigma2))),
                             preds.pred_noise)),
                   RMul(RSqrt(sigma2), n.noise)),
            noise |-> n.noise,
            drew |-> n.drew ]

(* ------------------------------ training ------------------------------ *)
(* loss_fn falling back to l1 on an unknown loss_type *)
loss_fn_Fallback(self) ==
    IF self.loss_type = "l2" THEN "mse_loss" ELSE "l1_loss"

(* the loss_fn property: the function it returns, or the error it raises *)
loss_fn(self) ==
    IF self.loss_type = "l1" THEN "l1_loss"
    ELSE IF self.loss_type = "l2" THEN "mse_loss"
    ELSE "ValueError"

(* F.l1_loss / F.mse_loss with reduction='none' on one element *)
ElementLoss(fn, input, target) ==
    IF fn = "l1_loss"
    THEN <<Abs(RSub(input, target)[1]), RSub(input, target)[2]>>
    ELSE RMul(RSub(input, target), RSub(input, target))

(* imgs is [list |-> TRUE, items |-> <<gt, input>>] for a python list and  *)
(* [list |-> FALSE, items |-> <<img>>] for a single tensor                 *)
XRes_Swapped(imgs) ==
    IF imgs.list THEN RSub(imgs.items[1], imgs.items[2])
    ELSE RSub(imgs.items[1], Zero)

(* x_res = x_input - x_start, with x_input = 0 in the Generation branch *)
XRes(imgs) ==
    IF imgs.list THEN RSub(imgs.items[2], imgs.items[1])
    ELSE RSub(Zero, imgs.items[1])

PLossesSelfCond_Never(self, coin) == FALSE

(* whether p_losses makes the self-conditioning query: coin is            *)
(* random.random() < 0.5                                                   *)
PLossesSelfCond(self, coin) == self.self_condition /\ coin

(* p_losses(imgs, t, noise): coin is random.random() < 0.5, sc_output the  *)
(* denoiser's output in the self-conditioning query, model_output its      *)
(* output in the query the loss is taken of; queries lists the denoiser's  *)
(* calls and raised is the exception raised, "" for none; torch.cat((x, 0)) *)
(* raises TypeError when condition is set and imgs is a single tensor      *)
p_losses(self, imgs, t, noise, coin, sc_output, model_output) ==
    LET x_start == imgs.items[1]
        res == XRes(imgs)
        x == q_sample(self, x_start, res, t, noise)
        cat_raises == self.condition /\ ~imgs.list
        x_self_cond == IF PLossesSelfCond(self, coin) /\ ~cat_raises
                       THEN model_predictions(self, x, t, sc_output).pred_x_start
                       ELSE None
        sc_query == IF PLossesSelfCond(self, coin)
                    THEN <<[x |-> x, t |-> t, x_self_cond |-> None]>>
                    ELSE <<>>
        target == <<res, noise>>
        fn == loss_fn(self)
    IN  [ x_start |-> x_start,
          x_res |-> res,
          x |-> x,
          x_self_cond |-> x_self_cond,
          queries |-> IF cat_raises THEN <<>>
                      ELSE Append(sc_query,
                                  [x |-> x, t |-> t, x_self_cond |-> x_self_cond]),
          target |-> target,
          raised |-> IF cat_raises THEN "TypeError"
                     ELSE IF fn = "ValueError" THEN "ValueError"
                     ELSE "",
          loss |-> IF cat_raises \/ fn = "ValueError" THEN None
                   ELSE RAdd(ElementLoss(fn, model_output[1], target[1]),
                             ElementLoss(fn, model_output[2], target[2])) ]

(* forward's normalisation of img, a list or a single tensor *)
NormalizeImgs(img) ==
    [ list |-> img.list,
      items |-> [k \in DOMAIN img.items |->
                    normalize_to_neg_one_to_one(img.items[k])] ]

(* ------------------------------ inputs --------------------------------- *)
(* training images passed to forward, in [0,1]: the clean image alone, or  *)
(* the list [clean image, degraded input]                                  *)
TrainImgs ==
    { [list |-> FALSE, items |-> <<gt>>] : gt \in {Zero, <<3, 4>>} }
      \cup { [list |-> TRUE, items |-> <<gt, <<5, 8>> >>] : gt \in {Zero, <<3, 4>>} }

(* values the denoiser may return for pred_res and for pred_noise *)
ModelVals == {<<-2, 1>>, <<1, 2>>}

(* the (pred_res, pred_noise) pairs the denoiser may return *)
ModelOutputs == (ModelVals \X ModelVals) \ {<<(<<-2, 1>>), (<<-2, 1>>)>>}

(* values torch.randn / torch.randn_like may return *)
RandnVals == {<<-1, 1>>, <<3, 2>>}

(* conditioning images passed to sample, in [0,1] *)
XInputs == {<<1, 4>>}

Etas == {Zero, Half, One}

SumScales == {None, Half, Two}

SamplingTimesteps(timesteps) == {None} \cup {<<s>> : s \in 0..timesteps}

(* ------------------------------ state ---------------------------------- *)
VARIABLES
    diffusion,        \* the constructed Diffusion object (fields and buffers)
    pc,               \* "idle", "p_sample_loop", "ddim_sample" or "returned"
    entry,            \* the method the caller invoked
    sample_fn,        \* the sampler that runs or ran
    x_input,          \* sample's x_input after normalisation
    last,             \* sample's last argument
    img,              \* the sample state threaded through the loop
    x_start,          \* previous step's predicted start image, or None
    iter,             \* what the for loop has still to visit
    img_list,         \* the trace collected when not last
    input_add_noise,  \* the perturbed initial estimate (conditional mode)
    ret,              \* the list the sampler returned
    hist,             \* one record per executed loop iteration
    twin,             \* a second run of ddim_sample on the same inputs
    call              \* the last call of a pure method and its result

vars == <<diffusion, pc, entry, sample_fn, x_input, last, img, x_start, iter, img_list,
          input_add_noise, ret, hist, twin, call>>

run == <<entry, sample_fn, x_input, last, img, x_start, iter, img_list, input_add_noise, ret,
         hist>>

(* loss_type is read by loss_fn only: every other argument is varied     *)
(* under 'l1', and the other loss types under the default eta and          *)
(* sum_scale                                                               *)
LossTypes == {"l1", "l2", "huber"}

ConstructorArgs ==
    { a \in (1..MaxT) \X (UNION {SamplingTimesteps(T) : T \in 1..MaxT})
             \X Etas \X BOOLEAN \X SumScales \X BOOLEAN \X LossTypes :
        /\ a[2] \in SamplingTimesteps(a[1])
        /\ a[7] # "l1" => (a[3] = Zero /\ a[5] = None /\ a[2] \in {None, <<1>>}) }

Init ==
    /\ diffusion \in
         { Diffusion(a[1], a[2], a[3], a[4], a[5], a[6], a[7]) :
             a \in { b \in ConstructorArgs : Accepts(b[1], b[2]) } }
    /\ pc = "idle"
    /\ entry = "none"
    /\ sample_fn = "none"
    /\ x_input = None
    /\ last = TRUE
    /\ img = None
    /\ x_start = None
    /\ iter = <<>>
    /\ img_list = <<>>
    /\ input_add_noise = None
    /\ ret = None
    /\ hist = <<>>
    /\ twin = None
    /\ call = None

(* ------------------------------ sample --------------------------------- *)
(* SampleFn with the two samplers swapped *)
SampleFn_Swapped(d) == IF d.is_ddim_sampling THEN "p_sample_loop" ELSE "ddim_sample"

(* sample_fn = self.p_sample_loop if not self.is_ddim_sampling else ...   *)
SampleFn(d) == IF ~d.is_ddim_sampling THEN "p_sample_loop" ELSE "ddim_sample"

(* reversed(range(0, self.num_timesteps)) *)
ReversedRange(n) == [i \in 1..n |-> n - i]

(* the initial sample state of both samplers *)
InitialImg(d, xin, randn) ==
    IF d.condition THEN RAdd(xin, RMul(RSqrt(d.sum_scale), randn)) ELSE randn

(* a sampler up to its first loop iteration; fn is the sampler and e the *)
(* method the caller invoked                                               *)
SampleStart(e, fn, xi, l, randn) ==
    /\ pc = "idle"
    /\ call = None
    /\ pc' = fn
    /\ entry' = e
    /\ sample_fn' = fn
    /\ x_input' = IF diffusion.condition
                  THEN normalize_to_neg_one_to_one(xi) ELSE xi
    /\ last' = l
    /\ img' = InitialImg(diffusion, x_input', randn)
    /\ input_add_noise' = IF diffusion.condition THEN img' ELSE None
    /\ x_start' = None
    /\ img_list' = <<>>
    /\ iter' = IF fn = "p_sample_loop"
               THEN ReversedRange(diffusion.num_timesteps)
               ELSE TimePairs(Times(diffusion.num_timesteps,
                                    diffusion.sampling_timesteps))
    /\ ret' = None
    /\ hist' = <<>>
    /\ call' = None
    /\ UNCHANGED diffusion

Sample ==
    /\ \E xi \in (IF diffusion.condition THEN XInputs ELSE {Zero}),
          l \in BOOLEAN, randn \in RandnVals :
         SampleStart("sample", SampleFn(diffusion), xi, l, randn)
    /\ twin' = None

(* the caller invokes ddim_sample itself where sample would not, and     *)
(* asks for the trace                                                      *)
DdimSampleCall ==
    /\ ~diffusion.is_ddim_sampling
    /\ \E xi \in (IF diffusion.condition THEN XInputs ELSE {Zero}),
          randn \in RandnVals :
         SampleStart("ddim_sample", "ddim_sample", xi, FALSE, randn)
    /\ twin' = None

(* self_cond = x_start if self.self_condition else None *)
SelfCond_Always(d, x0) == x0

SelfCond(d, x0) == IF d.self_condition THEN x0 ELSE None

(* one iteration of the p_sample_loop loop *)
PSampleIteration(model_output, randn) ==
    /\ pc = "p_sample_loop"
    /\ iter # <<>>
    /\ LET t == Head(iter)
           r == p_sample(diffusion, img, t, model_output, randn)
       IN  /\ img' = r.pred_img
           /\ x_start' = r.x_start
           /\ img_list' = IF ~last THEN Append(img_list, r.pred_img)
                          ELSE img_list
           /\ hist' = Append(hist, [ t |-> t, noise |-> r.noise,
                                     drew |-> r.drew,
                                     self_cond |-> SelfCond(diffusion, x_start),
                                     step |-> None,
                                     queries |-> <<[ x |-> img, t |-> t,
                                                     x_self_cond |->
                                                       SelfCond(diffusion, x_start) ]>>,
                                     x_start |-> r.x_start ])
    /\ iter' = Tail(iter)
    /\ UNCHANGED <<diffusion, pc, entry, sample_fn, x_input, last,
                   input_add_noise, ret, call>>

PSampleStep ==
    /\ \E model_output \in ModelOutputs, randn \in RandnVals :
         PSampleIteration(model_output, randn)
    /\ UNCHANGED twin

(* ReturnList without the initial estimate in front of a conditional trace *)
ReturnList_NoPrepend(d, l, ian, il, im) ==
    LET lst == IF d.condition
               THEN (IF ~l THEN il ELSE <<ian, im>>)
               ELSE (IF ~l THEN il ELSE <<im>>)
    IN  [i \in 1..Len(lst) |-> unnormalize_to_zero_to_one(lst[i])]

(* the list both samplers build after the loop *)
ReturnList(d, l, ian, il, im) ==
    LET lst == IF d.condition
               THEN (IF ~l THEN <<ian>> \o il ELSE <<ian, im>>)
               ELSE (IF ~l THEN il ELSE <<im>>)
    IN  [i \in 1..Len(lst) |-> unnormalize_to_zero_to_one(lst[i])]

PSampleFinish ==
    /\ pc = "p_sample_loop"
    /\ iter = <<>>
    /\ ret' = ReturnList(diffusion, last, input_add_noise, img_list, img)
    /\ pc' = "returned"
    /\ UNCHANGED <<diffusion, entry, sample_fn, x_input, last, img, x_start,
                   iter, img_list, input_add_noise, hist, call>>

PSampleReturn == PSampleFinish /\ UNCHANGED twin

(* DdimBuffers with alpha computed in place in the view self.alphas_cumsum[time] *)
DdimBuffers_InPlace(self, time, time_next) ==
    IF time_next < 0 THEN self
    ELSE [self EXCEPT !.alphas_cumsum[time] =
              RSub(self.alphas_cumsum[time], self.alphas_cumsum[time_next])]

(* the object after one iteration: alpha_cumsum, betas2_cumsum, ... are   *)
(* read out of the buffers and every operation on them is out of place     *)
DdimBuffers(self, time, time_next) == self

(* one iteration of the ddim_sample loop *)
DdimIteration(model_output, randn) ==
    /\ pc = "ddim_sample"
    /\ iter # <<>>
    /\ LET time == Head(iter)[1]
           time_next == Head(iter)[2]
           preds == model_predictions(diffusion, img, time, model_output)
           u == DdimUpdate(diffusion, img, time, time_next, preds, randn)
       IN  /\ img' = u.img
           /\ x_start' = preds.pred_x_start
           /\ img_list' = IF ~last THEN Append(img_list, u.img) ELSE img_list
           /\ hist' = Append(hist, [ t |-> time, noise |-> u.noise,
                                     drew |-> u.drew,
                                     self_cond |-> SelfCond(diffusion, x_start),
                                     step |-> u.step,
                                     queries |-> <<[ x |-> img, t |-> time,
                                                     x_self_cond |->
                                                       SelfCond(diffusion, x_start) ]>>,
                                     x_start |-> preds.pred_x_start ])
    /\ iter' = Tail(iter)
    /\ diffusion' = DdimBuffers(diffusion, Head(iter)[1], Head(iter)[2])
    /\ UNCHANGED <<pc, entry, sample_fn, x_input, last, input_add_noise, ret,
                   call>>

DdimStep ==
    /\ \E model_output \in ModelOutputs, randn \in RandnVals :
         DdimIteration(model_output, randn)
    /\ UNCHANGED twin

DdimFinish ==
    /\ pc = "ddim_sample"
    /\ iter = <<>>
    /\ ret' = ReturnList(diffusion, last, input_add_noise, img_list, img)
    /\ pc' = "returned"
    /\ UNCHANGED <<diffusion, entry, sample_fn, x_input, last, img, x_start,
                   iter, img_list, input_add_noise, hist, call>>

DdimReturn == DdimFinish /\ UNCHANGED twin

(* the caller drops the returned value; the object is ready for a new call *)
Drop ==
    /\ pc = "returned" \/ call # None
    /\ pc' = "idle"
    /\ entry' = "none"
    /\ sample_fn' = "none"
    /\ x_input' = None
    /\ last' = TRUE
    /\ img' = None
    /\ x_start' = None
    /\ iter' = <<>>
    /\ img_list' = <<>>
    /\ input_add_noise' = None
    /\ ret' = None
    /\ hist' = <<>>
    /\ twin' = None
    /\ call' = None
    /\ UNCHANGED diffusion

(* --------------------- calls of the pure methods ----------------------- *)
PixelVals == ModelVals \cup RandnVals

(* the methods called on their own below read neither sampling_timesteps  *)
(* nor ddim_sampling_eta: they are called on the objects built with the    *)
(* default of both                                                         *)
DefaultSampling(self) ==
    /\ self.args.sampling_timesteps = None
    /\ self.args.ddim_sampling_eta = Zero

GenScales == {One, Half, <<1, 100>>}

(* gen_coefficients(timesteps, schedule, sum_scale): result is None when  *)
(* the assert raises                                                       *)
CallGenCoefficients ==
    /\ pc = "idle"
    /\ call = None
    /\ DefaultSampling(diffusion)
    /\ \E timesteps \in 1..MaxT, schedule \in Schedules, ss \in GenScales :
         call' = [ op |-> "gen_coefficients",
                   timesteps |-> timesteps,
                   schedule |-> schedule,
                   sum_scale |-> ss,
                   raw |-> GenRaw(timesteps, schedule),
                   result |-> IF GenAssert(GenRaw(timesteps, schedule))
                              THEN gen_coefficients(timesteps, schedule, ss)
                              ELSE None ]
    /\ UNCHANGED <<diffusion, pc, run, twin>>

CallQPosterior ==
    /\ pc = "idle"
    /\ call = None
    /\ DefaultSampling(diffusion)
    /\ \E t \in 0..(diffusion.num_timesteps - 1),
          pred_res \in PixelVals, x0 \in PixelVals, x_t \in PixelVals :
         call' = [ op |-> "q_posterior",
                   pred_res |-> pred_res, x_start |-> x0, x_t |-> x_t, t |-> t,
                   result |-> q_posterior(diffusion, pred_res, x0, x_t, t) ]
    /\ UNCHANGED <<diffusion, pc, run, twin>>

CallQSample ==
    /\ pc = "idle"
    /\ call = None
    /\ DefaultSampling(diffusion)
    /\ \E t \in 0..(diffusion.num_timesteps - 1),
          x0 \in PixelVals, x_res \in PixelVals, noise \in RandnVals :
         call' = [ op |-> "q_sample",
                   x_start |-> x0, x_res |-> x_res, t |-> t, noise |-> noise,
                   result |-> q_sample(diffusion, x0, x_res, t, noise) ]
    /\ UNCHANGED <<diffusion, pc, run, twin>>

(* predict_start_from_res_noise applied to what q_sample just returned,   *)
(* with q_sample's t, x_res and noise                                      *)
CallPredictStartFromResNoise ==
    /\ pc = "idle"
    /\ call # None
    /\ call.op = "q_sample"
    /\ call' = [ op |-> "predict_start_from_res_noise",
                 x_t |-> call.result, t |-> call.t, x_res |-> call.x_res,
                 noise |-> call.noise, q_sample_x_start |-> call.x_start,
                 result |-> predict_start_from_res_noise(
                                diffusion, call.result, call.t, call.x_res,
                                call.noise) ]
    /\ UNCHANGED <<diffusion, pc, run, twin>>

CallPredictStartFromXinputNoise ==
    /\ pc = "idle"
    /\ call = None
    /\ DefaultSampling(diffusion)
    /\ \E t \in 0..(diffusion.num_timesteps - 1),
          x_t \in PixelVals, x_in \in PixelVals, noise \in RandnVals :
         call' = [ op |-> "predict_start_from_xinput_noise",
                   x_t |-> x_t, t |-> t, x_input |-> x_in, noise |-> noise,
                   divisor |-> diffusion.one_minus_alphas_cumsum[t],
                   result |-> predict_start_from_xinput_noise(
                                  diffusion, x_t, t, x_in, noise) ]
    /\ UNCHANGED <<diffusion, pc, run, twin>>

(* the random inputs of one p_losses call: random.random() is drawn only  *)
(* when self_condition is set, and the self-conditioning query is made     *)
(* only when the draw is below 0.5                                         *)
Coins(self) == IF self.self_condition THEN BOOLEAN ELSE {FALSE}

ScOutputs(coin) == IF coin THEN ModelOutputs ELSE {None}

(* p_losses(imgs, t) with imgs already in [-1,1] *)
CallPLosses ==
    /\ pc = "idle"
    /\ call = None
    /\ DefaultSampling(diffusion)
    /\ \E imgs \in TrainImgs, t \in 0..(diffusion.num_timesteps - 1),
          noise \in RandnVals, coin \in Coins(diffusion),
          model_output \in ModelOutputs :
         \E sc_output \in ScOutputs(coin) :
           call' = [ op |-> "p_losses", imgs |-> NormalizeImgs(imgs), t |-> t,
                     noise |-> noise, coin |-> coin, sc_output |-> sc_output,
                     model_output |-> model_output,
                     result |-> p_losses(diffusion, NormalizeImgs(imgs), t, noise,
                                         coin, sc_output, model_output) ]
    /\ UNCHANGED <<diffusion, pc, run, twin>>

(* forward(img): draws t, normalises img and calls p_losses *)
CallForward ==
    /\ pc = "idle"
    /\ call = None
    /\ DefaultSampling(diffusion)
    /\ \E imgs \in TrainImgs, t \in 0..(diffusion.num_timesteps - 1),
          noise \in RandnVals, coin \in Coins(diffusion),
          model_output \in ModelOutputs :
         \E sc_output \in ScOutputs(coin) :
           call' = [ op |-> "forward", imgs |-> NormalizeImgs(imgs), t |-> t,
                     noise |-> noise, coin |-> coin, sc_output |-> sc_output,
                     model_output |-> model_output,
                     result |-> p_losses(diffusion, NormalizeImgs(imgs), t, noise,
                                         coin, sc_output, model_output) ]
    /\ UNCHANGED <<diffusion, pc, run, twin>>

Next ==
    \/ Sample
    \/ DdimSampleCall
    \/ PSampleStep
    \/ PSampleReturn
    \/ DdimStep
    \/ DdimReturn
    \/ Drop
    \/ CallGenCoefficients
    \/ CallQPosterior
    \/ CallQSample
    \/ CallPredictStartFromResNoise
    \/ CallPredictStartFromXinputNoise
    \/ CallPLosses
    \/ CallForward

Spec == Init /\ [][Next]_vars

(* ------------- two runs of ddim_sample on the same inputs -------------- *)
(* the object's eta is 0, the case the two runs are compared in;          *)
(* both runs start from the same initial sample; last=False makes the    *)
(* returned list hold every intermediate state, the final image included   *)
TwinSample ==
    /\ diffusion.ddim_sampling_eta = Zero
    /\ \E xi \in (IF diffusion.condition THEN XInputs ELSE {Zero}),
          randn \in RandnVals :
         SampleStart("ddim_sample", "ddim_sample", xi, FALSE, randn)
    /\ twin' = [img |-> img', img_list |-> <<>>, noises |-> <<>>, ret |-> None]

(* both runs receive the same denoiser output; each draws its own noise *)
TwinDdimStep ==
    /\ twin # None
    /\ \E model_output \in ModelOutputs, randn \in RandnVals,
          randn2 \in RandnVals :
         /\ DdimIteration(model_output, randn)
         /\ LET time == Head(iter)[1]
                time_next == Head(iter)[2]
                preds == model_predictions(diffusion, twin.img, time,
                                           model_output)
                u == DdimUpdate(diffusion, twin.img, time, time_next, preds,
                                randn2)
            IN  twin' = [ img |-> u.img,
                          img_list |-> IF ~last THEN Append(twin.img_list, u.img)
                                       ELSE twin.img_list,
                          noises |-> Append(twin.noises, u.noise),
                          ret |-> None ]

TwinReturn ==
    /\ twin # None
    /\ DdimFinish
    /\ twin' = [twin EXCEPT !.ret = ReturnList(diffusion, last,
                                       input_add_noise, twin.img_list, twin.img)]

NextTwin ==
    \/ TwinSample
    \/ TwinDdimStep
    \/ TwinReturn

SpecTwin == Init /\ [][NextTwin]_vars

(* ------ p_sample_loop beside ddim_sample with S = T on the same inputs -- *)
(* the run variables hold the p_sample_loop run, twin the ddim_sample run  *)
(* of the same object; clamped tells whether torch.clamp has changed the   *)
(* x_start of a p_sample_loop step with t > 0                              *)
PairSample ==
    /\ diffusion.sampling_timesteps = diffusion.num_timesteps
    /\ \E randn \in RandnVals :
         SampleStart("p_sample_loop", "p_sample_loop", Zero, FALSE, randn)
    /\ twin' = [ img |-> img', img_list |-> <<>>, clamped |-> FALSE,
                 iter |-> TimePairs(Times(diffusion.num_timesteps,
                                          diffusion.sampling_timesteps)),
                 ret |-> None ]

(* both samplers receive the same denoiser output and the same randn value *)
PairStep ==
    /\ twin # None
    /\ \E model_output \in ModelOutputs, randn \in RandnVals :
         /\ PSampleIteration(model_output, randn)
         /\ LET t == Head(iter)
                time == Head(twin.iter)[1]
                time_next == Head(twin.iter)[2]
                raw == predict_start_from_res_noise(
                           diffusion, img, t,
                           Clamp(model_output[1], MinusOne, One), model_output[2])
                preds == model_predictions(diffusion, twin.img, time,
                                           model_output)
                u == DdimUpdate(diffusion, twin.img, time, time_next, preds,
                                randn)
            IN  twin' = [ img |-> u.img,
                          img_list |-> Append(twin.img_list, u.img),
                          clamped |-> \/ twin.clamped
                                      \/ (t > 0 /\ Clamp(raw, MinusOne, One) # raw),
                          iter |-> Tail(twin.iter),
                          ret |-> None ]

PairReturn ==
    /\ twin # None
    /\ PSampleFinish
    /\ twin' = [twin EXCEPT !.ret = ReturnList(diffusion, last,
                                       input_add_noise, twin.img_list, twin.img)]

NextPair ==
    \/ PairSample
    \/ PairStep
    \/ PairReturn

SpecPair == Init /\ [][NextPair]_vars

(* ------------------------------ claims --------------------------------- *)
InUnit(x) == RLe(Zero, x) /\ RLe(x, One)

(* C1: the last element of the list a sampler returns lies in [0,1], for  *)
(* every accepted configuration, denoiser output and noise draw            *)
C1_FinalImageInUnitRange ==
    pc = "returned" => (Len(ret) > 0 /\ InUnit(ret[Len(ret)]))

(* C2: for 1 <= S <= T ddim_sample's loop runs over exactly S pairs       *)
(* (time, time_next) that chain from T-1 down to -1, each strictly         *)
(* decreasing, with time_next = -1 in the last pair only                   *)
C2_TimePairsDecrease ==
    (pc = "ddim_sample" /\ hist = <<>> /\ diffusion.sampling_timesteps >= 1) =>
        LET T == diffusion.num_timesteps
            S == diffusion.sampling_timesteps
        IN  /\ Len(iter) = S
            /\ iter[1][1] = T - 1
            /\ iter[S][2] = -1
            /\ \A i \in 1..S : iter[i][1] > iter[i][2]
            /\ \A i \in 1..(S - 1) : iter[i][2] = iter[i + 1][1] /\ iter[i][2] >= 0

C2_Witness ==
    /\ pc = "ddim_sample"
    /\ hist = <<>>
    /\ diffusion.num_timesteps = 3
    /\ diffusion.sampling_timesteps = 2
    /\ iter = <<(<<2, 0>>), (<<0, -1>>)>>

(* C3: p_sample_loop visits T-1, ..., 0 once each in decreasing order and *)
(* returns after t = 0; p_sample's noise is zero exactly at t = 0 and a    *)
(* drawn value at every t > 0                                              *)
C3_AncestralVisitsAll ==
    sample_fn = "p_sample_loop" =>
        LET T == diffusion.num_timesteps
        IN  /\ Len(hist) + Len(iter) = T
            /\ \A i \in 1..Len(hist) : hist[i].t = T - i
            /\ \A i \in 1..Len(iter) : iter[i] = T - Len(hist) - i
            /\ pc = "returned" => Len(hist) = T
            /\ \A i \in 1..Len(hist) :
                 /\ (hist[i].noise = Zero) <=> (hist[i].t = 0)
                 /\ hist[i].drew <=> (hist[i].t > 0)

C3_Witness ==
    /\ sample_fn = "p_sample_loop"
    /\ pc = "returned"
    /\ diffusion.num_timesteps = 3
    /\ hist[1].drew /\ hist[2].drew /\ ~hist[3].drew
    /\ hist[3].t = 0

(* C4: sample runs ddim_sample when sampling_timesteps < num_timesteps    *)
(* and p_sample_loop otherwise, an unspecified sampling_timesteps being    *)
(* num_timesteps                                                           *)
C4_SamplerSelection ==
    entry = "sample" =>
        LET T == diffusion.num_timesteps
            S == IF diffusion.args.sampling_timesteps = None THEN T
                 ELSE diffusion.args.sampling_timesteps[1]
        IN  sample_fn = (IF S < T THEN "ddim_sample" ELSE "p_sample_loop")

C4_Witness ==
    /\ entry = "sample"
    /\ diffusion.args.sampling_timesteps = None
    /\ diffusion.num_timesteps = 2
    /\ sample_fn = "p_sample_loop"
    /\ pc = "returned"

(* C5: with eta = 0 no loop step of ddim_sample draws noise (the noise is *)
(* zero in every update), and two runs from the same initial sample with   *)
(* the same denoiser outputs agree after every step and in what they       *)
(* return                                                                  *)
C5_EtaZeroDeterministic ==
    (twin # None /\ diffusion.ddim_sampling_eta = Zero) =>
        /\ \A i \in 1..Len(hist) : hist[i].noise = Zero /\ ~hist[i].drew
        /\ \A i \in 1..Len(twin.noises) : twin.noises[i] = Zero
        /\ twin.img = img
        /\ twin.img_list = img_list
        /\ pc = "returned" => twin.ret = ret

C5_Witness ==
    /\ twin # None
    /\ diffusion.ddim_sampling_eta = Zero
    /\ pc = "returned"
    /\ Len(hist) = 3
    /\ ~last
    /\ twin.ret = ret

(* C6: with condition set the stored ddim_sampling_eta is 0 whatever was  *)
(* passed; without it the passed value is stored                           *)
C6_EtaForcedByCondition ==
    /\ diffusion.condition => diffusion.ddim_sampling_eta = Zero
    /\ ~diffusion.condition =>
           diffusion.ddim_sampling_eta = diffusion.args.ddim_sampling_eta

C6_Witness ==
    /\ diffusion.condition
    /\ diffusion.args.ddim_sampling_eta = One
    /\ diffusion.ddim_sampling_eta = Zero

(* C7: posterior_variance[0] = 0, posterior_mean_coef1[0] = 0,            *)
(* posterior_mean_coef2[0] = 0, posterior_mean_coef3[0] = 1, and           *)
(* q_posterior at t = 0 returns x_start as the posterior mean              *)
C7_PosteriorBoundary ==
    /\ diffusion.posterior_variance[0] = Zero
    /\ diffusion.posterior_mean_coef1[0] = Zero
    /\ diffusion.posterior_mean_coef2[0] = Zero
    /\ diffusion.posterior_mean_coef3[0] = One
    /\ (call # None /\ call.op = "q_posterior" /\ call.t = 0) =>
           call.result.posterior_mean = call.x_start

C7_Witness ==
    /\ call # None
    /\ call.op = "q_posterior"
    /\ call.t = 0
    /\ diffusion.num_timesteps = 2
    /\ call.x_t # call.x_start
    /\ call.pred_res # call.x_start
    /\ call.result.posterior_mean = call.x_start

(* C8: predict_start_from_res_noise applied to q_sample(x_start, x_res,   *)
(* t, noise) with the same t, x_res and noise gives x_start back           *)
C8_RoundTrip ==
    (call # None /\ call.op = "predict_start_from_res_noise") =>
        call.result = call.q_sample_x_start

C8_Witness ==
    /\ call # None
    /\ call.op = "predict_start_from_res_noise"
    /\ call.t = 1
    /\ call.x_t # call.q_sample_x_start
    /\ call.result = call.q_sample_x_start

(* C9: for every schedule shape the sequence gen_coefficients builds sums *)
(* to 1 within 1e-10 before scaling, the assert passes, and the result is  *)
(* that sequence times sum_scale                                           *)
C9_CoefficientsSumToOne ==
    (call # None /\ call.op = "gen_coefficients") =>
        /\ LtTol(RSub(Total(call.raw), One))
        /\ LtTol(RSub(One, Total(call.raw)))
        /\ call.result # None
        /\ \A i \in DOMAIN call.raw :
             call.result[i] = RMul(call.raw[i], call.sum_scale)

C9_Witness ==
    /\ call # None
    /\ call.op = "gen_coefficients"
    /\ call.timesteps = 3
    /\ call.schedule = "decreased"
    /\ call.sum_scale = Half
    /\ call.result = (0 :> <<1, 4>>) @@ (1 :> <<1, 6>>) @@ (2 :> <<1, 12>>)

(* C10: alphas_cumsum[t] + one_minus_alphas_cumsum[t] = 1 except at the   *)
(* final index, where one_minus_alphas_cumsum is the epsilon 1e-6; so      *)
(* every entry is positive and predict_start_from_xinput_noise divides by  *)
(* a positive value                                                        *)
C10_OneMinusAlphasCumsum ==
    LET T == diffusion.num_timesteps
    IN  /\ \A t \in 0..(T - 2) :
             RAdd(diffusion.alphas_cumsum[t],
                  diffusion.one_minus_alphas_cumsum[t]) = One
        /\ diffusion.one_minus_alphas_cumsum[T - 1] = Epsilon
        /\ \A t \in 0..(T - 1) : RLt(Zero, diffusion.one_minus_alphas_cumsum[t])
        /\ (call # None /\ call.op = "predict_start_from_xinput_noise") =>
               RLt(Zero, call.divisor)

C10_Witness ==
    /\ call # None
    /\ call.op = "predict_start_from_xinput_noise"
    /\ diffusion.num_timesteps = 3
    /\ call.t = 2
    /\ call.divisor = Epsilon
    /\ diffusion.alphas_cumsum[2] = One

(* C11: alphas decreases across steps and sums to 1, betas2 increases    *)
(* across steps and sums to sum_scale, and betas2_cumsum is non-decreasing *)
C11_ScheduleShapes ==
    LET T == diffusion.num_timesteps
    IN  /\ \A t \in 0..(T - 2) : RLt(diffusion.alphas[t + 1], diffusion.alphas[t])
        /\ Total(diffusion.alphas) = One
        /\ \A t \in 0..(T - 2) : RLt(diffusion.betas2[t], diffusion.betas2[t + 1])
        /\ Total(diffusion.betas2) = diffusion.sum_scale
        /\ RLt(Zero, diffusion.sum_scale)
        /\ \A t \in 0..(T - 2) :
             RLe(diffusion.betas2_cumsum[t], diffusion.betas2_cumsum[t + 1])

C11_Witness ==
    /\ diffusion.num_timesteps = 3
    /\ diffusion.sum_scale = Two
    /\ diffusion.alphas = (0 :> <<1, 2>>) @@ (1 :> <<1, 3>>) @@ (2 :> <<1, 6>>)
    /\ diffusion.betas2 = (0 :> <<1, 3>>) @@ (1 :> <<2, 3>>) @@ (2 :> <<1, 1>>)
    /\ diffusion.betas2_cumsum = (0 :> <<1, 3>>) @@ (1 :> <<1, 1>>) @@ (2 :> <<1, 1>>)

RAbs(a) == <<Abs(a[1]), a[2]>>

(* what k inexact square roots can move a state by: each root is within   *)
(* 1/SqrtRes of its value and multiplies a pred_noise of magnitude <= 2    *)
Rounding(k) == Norm(2 * k, SqrtRes)

Close(a, b, k) == RLe(RAbs(RSub(a, b)), Rounding(k))

(* C12: ddim_sample with sampling_timesteps = num_timesteps and eta = 1   *)
(* is in the same state as p_sample_loop after every step, and returns the *)
(* same list, given the same initial sample, denoiser outputs and noise    *)
(* draws (equality is up to the rounding of the square roots)              *)
C12_SameTrajectory ==
    (twin # None /\ diffusion.ddim_sampling_eta = One) =>
        /\ Close(twin.img, img, Len(hist))
        /\ pc = "returned" =>
               \A i \in 1..Len(ret) : Close(twin.ret[i], ret[i], i)

(* C12 amended: the same, for sum_scale <= 1 and as long as torch.clamp   *)
(* has not changed the x_start of a p_sample_loop step with t > 0          *)
C12_SameTrajectoryUnclamped ==
    (/\ twin # None
     /\ diffusion.ddim_sampling_eta = One
     /\ RLe(diffusion.sum_scale, One)
     /\ ~twin.clamped) =>
        /\ Len(twin.iter) = Len(iter)
        /\ iter # <<>> => Head(twin.iter) = <<Head(iter), Head(iter) - 1>>
        /\ Close(twin.img, img, Len(hist))
        /\ Len(twin.img_list) = Len(img_list)
        /\ \A i \in 1..Len(img_list) : Close(twin.img_list[i], img_list[i], i)
        /\ pc = "returned" =>
               /\ Len(twin.ret) = Len(ret)
               /\ \A i \in 1..Len(ret) : Close(twin.ret[i], ret[i], i)

C12_Witness ==
    /\ twin # None
    /\ diffusion.ddim_sampling_eta = One
    /\ diffusion.sum_scale = One
    /\ ~twin.clamped
    /\ diffusion.num_timesteps = 3
    /\ pc = "returned"
    /\ hist[1].drew /\ hist[2].drew
    /\ twin.img_list[1] = img_list[1]
    /\ twin.ret[3] = ret[3]
    /\ ret[1] # ret[2]

(* C13: no operation after construction changes a schedule buffer: every   *)
(* step of q_sample, p_losses, forward, model_predictions, q_posterior,    *)
(* p_sample, p_sample_loop, ddim_sample and sample leaves each buffer      *)
(* equal to the value __init__ registered                                  *)
Buffers(self) ==
    [ alphas |-> self.alphas,
      alphas_cumsum |-> self.alphas_cumsum,
      one_minus_alphas_cumsum |-> self.one_minus_alphas_cumsum,
      betas2 |-> self.betas2,
      betas |-> self.betas,
      betas2_cumsum |-> self.betas2_cumsum,
      betas_cumsum |-> self.betas_cumsum,
      posterior_mean_coef1 |-> self.posterior_mean_coef1,
      posterior_mean_coef2 |-> self.posterior_mean_coef2,
      posterior_mean_coef3 |-> self.posterior_mean_coef3,
      posterior_variance |-> self.posterior_variance,
      posterior_log_variance_clipped |-> self.posterior_log_variance_clipped ]

C13_BuffersUnchanged == [][Buffers(diffusion)' = Buffers(diffusion)]_vars

(* a reduced-step run of three iterations has returned and the buffers    *)
(* are those the constructor computes                                      *)
C13_Witness ==
    /\ pc = "returned"
    /\ sample_fn = "ddim_sample"
    /\ Len(hist) = 3
    /\ diffusion.num_timesteps = 3
    /\ diffusion.alphas_cumsum = AlphasCumsum(3)
    /\ diffusion.betas2_cumsum = Betas2Cumsum(3, diffusion.sum_scale)
    /\ diffusion.posterior_variance = PosteriorVariance(3, diffusion.sum_scale)

(* C14: on an object built with a loss_type other than 'l1' and 'l2',      *)
(* every p_losses call raises, and it is the loss_fn lookup that raises:   *)
(* the denoiser has been queried by then; the constructor accepted the     *)
(* loss_type: every other field of the object it built, so everything     *)
(* the samplers read, is what it builds under 'l1', and the samplers       *)
(* return their list                                                       *)
C14_UnsupportedLossType ==
    (diffusion.loss_type \notin {"l1", "l2"}) =>
        /\ (call # None /\ call.op \in {"p_losses", "forward"}) =>
              /\ call.result.raised # ""
              /\ call.result.loss = None
              /\ call.result.raised # "TypeError" =>
                    /\ call.result.raised = "ValueError"
                    /\ Len(call.result.queries) >= 1
        /\ (pc = "idle" /\ call = None) =>
            [diffusion EXCEPT !.loss_type = "l1"] =
              Diffusion(diffusion.num_timesteps, diffusion.args.sampling_timesteps,
                        diffusion.args.ddim_sampling_eta, diffusion.condition,
                        diffusion.args.sum_scale, diffusion.self_condition, "l1")
        /\ pc = "returned" => (ret # None /\ Len(ret) >= 1)

(* p_losses raised ValueError on an object with loss_type 'huber', after   *)
(* both denoiser queries                                                   *)
C14_Witness ==
    /\ diffusion.loss_type = "huber"
    /\ call # None
    /\ call.op = "p_losses"
    /\ call.result.raised = "ValueError"
    /\ Len(call.result.queries) = 2

(* the value p_losses corrupts x_start with and regresses on is x_res *)
UsesResidual(r, self, t, noise) ==
    /\ r.target[1] = r.x_res
    /\ r.x = RAdd(r.x_start,
                  RAdd(RMul(self.alphas_cumsum[t], r.x_res),
                       RMul(self.betas_cumsum[t], noise)))

(* C15: in p_losses x_res, the value used for the forward corruption and   *)
(* as the regression target, is x_input - x_start when imgs is a list and  *)
(* zero when imgs is a single tensor                                       *)
C15_ResidualZeroUnconditional ==
    (call # None /\ call.op \in {"p_losses", "forward"}) =>
        /\ UsesResidual(call.result, diffusion, call.t, call.noise)
        /\ call.result.x_res =
              IF call.imgs.list
              THEN RSub(call.imgs.items[2], call.imgs.items[1])
              ELSE Zero

(* C15, amended: x_res is x_input - x_start when imgs is a list and        *)
(* -x_start, x_input being 0, when imgs is a single tensor                 *)
C15_Residual ==
    (call # None /\ call.op \in {"p_losses", "forward"}) =>
        /\ UsesResidual(call.result, diffusion, call.t, call.noise)
        /\ call.result.x_res =
              IF call.imgs.list
              THEN RSub(call.imgs.items[2], call.imgs.items[1])
              ELSE RNeg(call.imgs.items[1])

(* an unconditional p_losses call on the image 1/2 returned a loss and     *)
(* used the residual -1/2                                                  *)
C15_Witness ==
    /\ call # None
    /\ call.op = "p_losses"
    /\ ~call.imgs.list
    /\ call.imgs.items[1] = Half
    /\ call.result.x_res = <<-1, 2>>
    /\ call.result.raised = ""
    /\ call.t = 1

(* the sampler's step i made one denoiser query, on the state and the      *)
(* timestep of that step                                                   *)
OneQuery(i) ==
    /\ Len(hist[i].queries) = 1
    /\ hist[i].queries[1].t = hist[i].t

(* C16: in both samplers every step queries the denoiser exactly once;     *)
(* with self-conditioning enabled the query's self-conditioning input is   *)
(* the x_start predicted by the previous step, and none at the first       *)
(* step; with self-conditioning disabled it is none at every step          *)
C16_OneQueryPerStep ==
    \A i \in 1..Len(hist) :
        /\ OneQuery(i)
        /\ hist[i].queries[1].x_self_cond =
              IF diffusion.self_condition /\ i > 1
              THEN hist[i - 1].x_start
              ELSE None

(* a reduced-step run with self-conditioning made three steps, the second  *)
(* and the third fed with different predictions                            *)
C16_Witness ==
    /\ diffusion.self_condition
    /\ sample_fn = "ddim_sample"
    /\ pc = "returned"
    /\ Len(hist) = 3
    /\ hist[1].queries[1].x_self_cond = None
    /\ hist[2].queries[1].x_self_cond = hist[1].x_start
    /\ hist[3].queries[1].x_self_cond = hist[2].x_start
    /\ hist[1].x_start # hist[2].x_start

(* C17: in both samplers, with self-conditioning enabled, every step       *)
(* first queries the denoiser for a predicted start-image and feeds that   *)
(* prediction to the same step's real query                                *)
C17_SameStepPreQuery ==
    diffusion.self_condition =>
        \A i \in 1..Len(hist) :
            /\ Len(hist[i].queries) = 2
            /\ hist[i].queries[1].x_self_cond = None
            /\ exists(hist[i].queries[2].x_self_cond)

(* C17, amended: with self-conditioning enabled a sampler's step makes     *)
(* its one query with the previous step's prediction and no pre-query;     *)
(* the pre-query whose prediction is fed to the real query on the same     *)
(* step is made by p_losses, and only when its random draw is below 0.5    *)
C17_PreQueryInTrainingOnly ==
    diffusion.self_condition =>
        /\ \A i \in 1..Len(hist) :
              /\ OneQuery(i)
              /\ i = 1 => ~exists(hist[i].queries[1].x_self_cond)
              /\ i > 1 => hist[i].queries[1].x_self_cond = hist[i - 1].x_start
        /\ (call # None /\ call.op \in {"p_losses", "forward"}
               /\ call.result.raised # "TypeError") =>
              LET q == call.result.queries
              IN  IF call.coin
                  THEN /\ Len(q) = 2
                       /\ q[1].x_self_cond = None
                       /\ q[2].x_self_cond =
                             model_predictions(diffusion, q[1].x, q[1].t,
                                               call.sc_output).pred_x_start
                       /\ q[2].x = q[1].x /\ q[2].t = q[1].t
                  ELSE /\ Len(q) = 1
                       /\ q[1].x_self_cond = None

(* a p_losses call whose draw was below 0.5 made the pre-query and fed     *)
(* its prediction, 1/2 here, to the real query                             *)
C17_Witness ==
    /\ diffusion.self_condition
    /\ call # None
    /\ call.op = "p_losses"
    /\ call.coin
    /\ Len(call.result.queries) = 2
    /\ call.result.queries[2].x_self_cond = Half
    /\ call.result.raised = ""

(* the number of steps of the sampler that ran *)
Steps == IF sample_fn = "p_sample_loop" THEN diffusion.num_timesteps
         ELSE diffusion.sampling_timesteps

C19_StepQuantities ==
    \A i \in 1..Len(hist) :
        ( /\ hist[i].step # None
          /\ RLe(Zero, diffusion.ddim_sampling_eta)
          /\ RLe(diffusion.ddim_sampling_eta, One)
          /\ RLt(Zero, diffusion.sum_scale)
          /\ RLe(diffusion.sum_scale, One) ) =>
            LET q == hist[i].step
            IN  /\ RLt(Zero, q.alpha)
                /\ RLt(Zero, q.betas2)
                /\ RLe(Zero, q.sigma2)
                /\ RLe(q.sigma2, q.betas2_cumsum_next)
                /\ RLe(Zero, RSub(q.betas2_cumsum_next, q.sigma2))
                /\ RLt(Zero, q.betas2_cumsum)

(* a run with eta = 1 and sum_scale = 1 over three timesteps made its      *)
(* first step, from time 2 to time 1, with sigma2 = 1/4                    *)
C19_Witness ==
    /\ sample_fn = "ddim_sample"
    /\ diffusion.ddim_sampling_eta = One
    /\ diffusion.sum_scale = One
    /\ diffusion.num_timesteps = 3
    /\ Len(hist) >= 2
    /\ hist[1].t = 2
    /\ hist[1].step # None
    /\ hist[1].step.betas2_cumsum_next = Half
    /\ hist[1].step.sigma2 = <<1, 4>>
    /\ hist[2].step # None

====
